---- MODULE Spec2Model ----
(***************************************************************************)
(* Model of crypt (src/src/main.rs): a command-line tool that encrypts a   *)
(* file <path> into <path>.crypt and decrypts it back, with ChaCha20-      *)
(* Poly1305 under a 32-byte key given as a literal or as a key file.       *)
(*                                                                         *)
(* The state is the file system and the record of the last invocation.    *)
(* One action models one whole run of `main` (argument parsing, get_key,   *)
(* read_bytes, the cipher call, write_bytes); Tamper is the environment    *)
(* flipping one bit of a ciphertext file between two runs.                 *)
(***************************************************************************)
EXTENDS Integers, Sequences, FiniteSets, TLC

VARIABLES fs, run

vars == <<fs, run>>

-----------------------------------------------------------------------------
(* Program constants *)

KEY_LEN == 32

NONCE_LEN == 12

\* Length of the Poly1305 tag the cipher appends to the ciphertext.
TAG_LEN == 16

-----------------------------------------------------------------------------
(* Bounds of the model *)

\* Plaintexts are the prefixes of Message of length 0..MaxPlainLen.
MaxPlainLen == 2

\* The random source yields one of NumNonces nonces.
NumNonces == 2

-----------------------------------------------------------------------------
(* Values *)

None == [some |-> FALSE]

Some(x) == [some |-> TRUE, v |-> x]

Ok(x) == [tag |-> "Ok", v |-> x]

Err(e) == [tag |-> "Err", e |-> e]

\* A panic aborts the process: no error value is returned to main.
Panic == [tag |-> "Panic"]

FileReadError(name) == [kind |-> "FileReadError", name |-> name]

FileWriteError(name) == [kind |-> "FileWriteError", name |-> name]

KeyLenError(actual, expected) ==
    [kind |-> "KeyLenError", actual |-> actual, expected |-> expected]

EncryptionError == [kind |-> "EncryptionError"]

DecryptionError == [kind |-> "DecryptionError"]

Rep(n, b) == [i \in 1..n |-> b]

Min(a, b) == IF a < b THEN a ELSE b

Bit(x, b) == (x \div (2 ^ b)) % 2

FlipBit(x, b) == IF Bit(x, b) = 1 THEN x - (2 ^ b) ELSE x + (2 ^ b)

RECURSIVE XorFrom(_, _, _)
XorFrom(a, b, i) ==
    IF i > 7 THEN 0
    ELSE ((Bit(a, i) + Bit(b, i)) % 2) * (2 ^ i) + XorFrom(a, b, i + 1)

Xor(a, b) == XorFrom(a, b, 0)

-----------------------------------------------------------------------------
(* File system *)

\* format!("{}.crypt", &file_name)
CryptName(file_name) == file_name \o ".crypt"

Absent == [exists |-> FALSE, data |-> <<>>]

File(data) == [exists |-> TRUE, data |-> data]

\* read_bytes: the whole content, or FileReadError when the file cannot be
\* opened.
read_bytes(files, file_name) ==
    IF file_name \in DOMAIN files /\ files[file_name].exists
    THEN Ok(files[file_name].data)
    ELSE Err(FileReadError(file_name))

\* write_bytes: File::create truncates the file, then ONE call of
\* Write::write, whose returned byte count is dropped.  `os` is what the
\* operating system does: create fails (nothing touched), write fails
\* (after the truncation), write accepts all the bytes, or write accepts
\* only the first os.n bytes and returns Ok all the same.
write_bytes(files, file_name, text, os) ==
    IF os.kind = "create_err"
    THEN [files |-> files, res |-> Err(FileWriteError(file_name))]
    ELSE IF os.kind = "write_err"
    THEN [files |-> [files EXCEPT ![file_name] = File(<<>>)],
          res |-> Err(FileWriteError(file_name))]
    ELSE LET n == IF os.kind = "short" THEN Min(os.n, Len(text)) ELSE Len(text)
         IN  [files |-> [files EXCEPT ![file_name] = File(SubSeq(text, 1, n))],
              res |-> Ok(<<>>)]

-----------------------------------------------------------------------------
(* Key resolution *)

\* A conversion that saturates instead of truncating.
CharAsU8_saturating(c) == IF c > 255 THEN 255 ELSE c

\* `c as u8`: the code point of the character, truncated to its low 8 bits.
CharAsU8(c) == c % 256

\* The bytes of one character in the String's (UTF-8) encoding.
Utf8(c) ==
    IF c < 128 THEN <<c>>
    ELSE IF c < 2048 THEN <<192 + (c \div 64), 128 + (c % 64)>>
    ELSE <<224 + (c \div 4096), 128 + ((c \div 64) % 64), 128 + (c % 64)>>

RECURSIVE RawBytes(_)
RawBytes(s) == IF s = <<>> THEN <<>> ELSE Utf8(Head(s)) \o RawBytes(Tail(s))

\* A key resolution that cuts longer key material down to KEY_LEN bytes.
get_key_truncating(files, raw_key, key_file) ==
    LET key == IF raw_key.some
               THEN Ok([i \in 1..Len(raw_key.v) |-> CharAsU8(raw_key.v[i])])
               ELSE IF key_file.some
               THEN read_bytes(files, key_file.v)
               ELSE Panic
    IN  IF key.tag # "Ok" THEN key
        ELSE IF Len(key.v) >= KEY_LEN THEN Ok(SubSeq(key.v, 1, KEY_LEN))
        ELSE Err(KeyLenError(Len(key.v), KEY_LEN))

\* get_key: a literal is a sequence of characters (code points).
get_key(files, raw_key, key_file) ==
    LET key == IF raw_key.some
               THEN Ok([i \in 1..Len(raw_key.v) |-> CharAsU8(raw_key.v[i])])
               ELSE IF key_file.some
               THEN read_bytes(files, key_file.v)
               ELSE Panic
    IN  IF key.tag # "Ok" THEN key
        ELSE IF Len(key.v) = KEY_LEN THEN Ok(key.v)
        ELSE Err(KeyLenError(Len(key.v), KEY_LEN))

\* Cli::parse: --key and --key-file are members of the argument group
\* "key_g".  The group is declared only through the arguments, so it has
\* the defaults of a group: its members exclude each other, and it is not
\* required.
ParseOk(raw_key, key_file) == ~(raw_key.some /\ key_file.some)

-----------------------------------------------------------------------------
(* The cipher: the contract of ChaCha20Poly1305 (RFC 8439) as the program  *)
(* uses it.  The ciphertext is the plaintext XORed with a keystream that   *)
(* depends on the key and the nonce, followed by a TAG_LEN-byte tag over   *)
(* the ciphertext; opening verifies the tag before it releases anything.   *)
(* The keystream and the tag are small stand-ins with the same shape: the  *)
(* tag is a polynomial in the ciphertext bytes, evaluated in each of its   *)
(* TAG_LEN lanes at a point that depends on the key, plus a mask that      *)
(* depends on the key and the nonce.                                       *)

KeyStream(key, nonce, i) ==
    (key[((i - 1) % KEY_LEN) + 1] * 31
       + nonce[((i - 1) % NONCE_LEN) + 1] * 17 + i * 7) % 256

ApplyKeyStream(key, nonce, text) ==
    [i \in 1..Len(text) |-> Xor(text[i], KeyStream(key, nonce, i))]

RECURSIVE Poly(_, _, _)
Poly(text, r, i) ==
    IF i = 0 THEN 0 ELSE ((Poly(text, r, i - 1) + text[i] + 1) * r) % 251

TagLane(key, nonce, text, j) ==
    LET hi == j + TAG_LEN
        r  == ((key[j] + 3 * key[hi] + j) % 250) + 1
        s  == key[j] * 5 + key[hi] * 7 + nonce[((j - 1) % NONCE_LEN) + 1]
    IN  (Poly(text, r, Len(text)) + s + Len(text)) % 251

Tag(key, nonce, text) == [j \in 1..TAG_LEN |-> TagLane(key, nonce, text, j)]

\* cipher.encrypt(nonce, plaintext): ciphertext followed by the tag.  The
\* call fails only for plaintexts beyond the cipher's length limit, which
\* no in-memory buffer of the model reaches.
Seal(key, nonce, plaintext) ==
    LET ct == ApplyKeyStream(key, nonce, plaintext)
    IN  Ok(ct \o Tag(key, nonce, ct))

\* cipher.decrypt(nonce, buffer): an error when the buffer is shorter than
\* a tag or the tag does not verify, else the plaintext.
Open(key, nonce, buffer) ==
    IF Len(buffer) < TAG_LEN THEN Err("aead::Error")
    ELSE LET n  == Len(buffer) - TAG_LEN
             ct == SubSeq(buffer, 1, n)
         IN  IF SubSeq(buffer, n + 1, Len(buffer)) # Tag(key, nonce, ct)
             THEN Err("aead::Error")
             ELSE Ok(ApplyKeyStream(key, nonce, ct))

Usage == [tag |-> "Usage"]

-----------------------------------------------------------------------------
(* Inputs *)

Message == <<104, 105, 33, 10, 0, 255>>

Plaintexts == {SubSeq(Message, 1, n) : n \in 0..MaxPlainLen}

\* new_rand_nonce: NONCE_LEN bytes from the random source; the set of the
\* values a call can return.
new_rand_nonce ==
    {[i \in 1..NONCE_LEN |-> (37 * n + i) % 256] : n \in 1..NumNonces}

Paths == {"a"}

KeyFileNames == {"k", "k31", "k33", "nokey", "a", "a.crypt"}

FileNames == Paths \cup {CryptName(p) : p \in Paths} \cup KeyFileNames

\* Literal keys, as sequences of characters: A, e-acute (2 bytes in the
\* string), L-stroke (code point 321, 2 bytes in the string).
Literals ==
    {Rep(KEY_LEN, 65), Rep(KEY_LEN, 233), Rep(KEY_LEN, 321),
     Rep(16, 233), Rep(KEY_LEN - 1, 65), Rep(KEY_LEN + 1, 65), <<>>}

KeyArgs ==
    {<<Some(l), None>> : l \in Literals}
      \cup {<<None, Some(f)>> : f \in KeyFileNames}
      \cup {<<None, None>>, <<Some(Rep(KEY_LEN, 65)), Some("k")>>}

\* What the operating system does with a write_bytes call: fail in create,
\* fail in write, accept all bytes, or accept only the first n.
OsChoices ==
    {[kind |-> "create_err"], [kind |-> "write_err"], [kind |-> "all"]}
      \cup {[kind |-> "short", n |-> n] :
              n \in {1, NONCE_LEN - 1, NONCE_LEN, NONCE_LEN + TAG_LEN - 1}}

-----------------------------------------------------------------------------
(* State machine *)

Idle == [cmd |-> "none", file |-> "", raw_key |-> None, key_file |-> None,
         out |-> Usage, key |-> Usage, nonce |-> <<>>]

Init ==
    /\ \E plain \in {Absent} \cup {File(p) : p \in Plaintexts},
          crypt \in {Absent, File(<<>>), File(Rep(KEY_LEN, 1))} :
          fs = [f \in FileNames |->
                  CASE f = "a"       -> plain
                    [] f = "a.crypt" -> crypt
                    [] f = "k"       -> File(Rep(KEY_LEN, 1))
                    [] f = "k31"     -> File(Rep(KEY_LEN - 1, 1))
                    [] f = "k33"     -> File(Rep(KEY_LEN + 1, 1))
                    [] OTHER         -> Absent]
    /\ run = Idle

\* The end of a run: the files it leaves and the record of the run.  `out`
\* is what the run ended with (Ok prints SUCCESS, Err(e) prints ERROR: e,
\* Panic and Usage end the process without either); `key` is what get_key
\* returned and `nonce` the nonce of the blob (<<>> when the run had none).
Finish(cmd, file_name, raw_key, key_file, files, out, key, nonce) ==
    /\ fs' = files
    /\ run' = [cmd |-> cmd, file |-> file_name, raw_key |-> raw_key,
               key_file |-> key_file, out |-> out, key |-> key,
               nonce |-> nonce]

\* An encrypt that creates its destination before it reads its source.
encrypt_create_first(file_name, raw_key, key_file) ==
    \E key \in {get_key(fs, raw_key, key_file)} :
        IF key.tag # "Ok"
        THEN Finish("en", file_name, raw_key, key_file, fs, key, key, <<>>)
        ELSE
        \E nonce \in new_rand_nonce, plain \in {read_bytes(fs, file_name)} :
            IF plain.tag # "Ok"
            THEN Finish("en", file_name, raw_key, key_file,
                        [fs EXCEPT ![CryptName(file_name)] = File(<<>>)],
                        plain, key, <<>>)
            ELSE
            \E ciphertext \in {Seal(key.v, nonce, plain.v)}, os \in OsChoices :
                \E w \in {write_bytes(fs, CryptName(file_name),
                                      nonce \o ciphertext.v, os)} :
                    Finish("en", file_name, raw_key, key_file,
                           w.files, w.res, key, nonce)

\* encrypt: get_key, new_rand_nonce, read_bytes, cipher.encrypt, write_bytes.
encrypt(file_name, raw_key, key_file) ==
    \E key \in {get_key(fs, raw_key, key_file)} :
        IF key.tag # "Ok"
        THEN Finish("en", file_name, raw_key, key_file, fs, key, key, <<>>)
        ELSE
        \E nonce \in new_rand_nonce, plain \in {read_bytes(fs, file_name)} :
            IF plain.tag # "Ok"
            THEN Finish("en", file_name, raw_key, key_file, fs, plain, key, <<>>)
            ELSE
            \E ciphertext \in {Seal(key.v, nonce, plain.v)} :
                IF ciphertext.tag # "Ok"
                THEN Finish("en", file_name, raw_key, key_file, fs,
                            Err(EncryptionError), key, <<>>)
                ELSE
                \E os \in OsChoices :
                    \E w \in {write_bytes(fs, CryptName(file_name),
                                          nonce \o ciphertext.v, os)} :
                        Finish("en", file_name, raw_key, key_file,
                               w.files, w.res, key, nonce)

\* A decrypt that creates its destination before it opens the payload.
decrypt_create_first(file_name, raw_key, key_file) ==
    \E key \in {get_key(fs, raw_key, key_file)} :
        IF key.tag # "Ok"
        THEN Finish("de", file_name, raw_key, key_file, fs, key, key, <<>>)
        ELSE
        \E data \in {read_bytes(fs, CryptName(file_name))} :
            IF data.tag # "Ok"
            THEN Finish("de", file_name, raw_key, key_file, fs, data, key, <<>>)
            ELSE IF Len(data.v) < NONCE_LEN
            THEN Finish("de", file_name, raw_key, key_file, fs, Panic, key, <<>>)
            ELSE
            \E nonce \in {SubSeq(data.v, 1, NONCE_LEN)} :
            \E plaintext \in {Open(key.v, nonce,
                                   SubSeq(data.v, NONCE_LEN + 1, Len(data.v)))} :
                IF plaintext.tag # "Ok"
                THEN Finish("de", file_name, raw_key, key_file,
                            [fs EXCEPT ![file_name] = File(<<>>)],
                            Err(DecryptionError), key, nonce)
                ELSE
                \E os \in OsChoices :
                    \E w \in {write_bytes(fs, file_name, plaintext.v, os)} :
                        Finish("de", file_name, raw_key, key_file,
                               w.files, w.res, key, nonce)

\* decrypt: get_key, read_bytes, the two slices of the data, cipher.decrypt,
\* write_bytes.  data[..NONCE_LEN] panics when the data is shorter.
decrypt(file_name, raw_key, key_file) ==
    \E key \in {get_key(fs, raw_key, key_file)} :
        IF key.tag # "Ok"
        THEN Finish("de", file_name, raw_key, key_file, fs, key, key, <<>>)
        ELSE
        \E data \in {read_bytes(fs, CryptName(file_name))} :
            IF data.tag # "Ok"
            THEN Finish("de", file_name, raw_key, key_file, fs, data, key, <<>>)
            ELSE IF Len(data.v) < NONCE_LEN
            THEN Finish("de", file_name, raw_key, key_file, fs, Panic, key, <<>>)
            ELSE
            \E nonce \in {SubSeq(data.v, 1, NONCE_LEN)} :
            \E plaintext \in {Open(key.v, nonce,
                                   SubSeq(data.v, NONCE_LEN + 1, Len(data.v)))} :
                IF plaintext.tag # "Ok"
                THEN Finish("de", file_name, raw_key, key_file, fs,
                            Err(DecryptionError), key, nonce)
                ELSE
                \E os \in OsChoices :
                    \E w \in {write_bytes(fs, file_name, plaintext.v, os)} :
                        Finish("de", file_name, raw_key, key_file,
                               w.files, w.res, key, nonce)

\* main, Command::En: parse the command line and run encrypt.  A rejected
\* command line ends the process before any operation runs.
EnWith(keyArgs) ==
    \E file_name \in Paths, ka \in keyArgs :
        IF ~ParseOk(ka[1], ka[2])
        THEN Finish("en", file_name, ka[1], ka[2], fs, Usage, Usage, <<>>)
        ELSE encrypt(file_name, ka[1], ka[2])

\* main, Command::De: parse the command line and run decrypt.
DeWith(keyArgs) ==
    \E file_name \in Paths, ka \in keyArgs :
        IF ~ParseOk(ka[1], ka[2])
        THEN Finish("de", file_name, ka[1], ka[2], fs, Usage, Usage, <<>>)
        ELSE decrypt(file_name, ka[1], ka[2])

\* crypt en --file <path> [--key <literal>] [--key-file <path>]
En == EnWith(KeyArgs)

\* crypt de --file <path> [--key <literal>] [--key-file <path>]
De == DeWith(KeyArgs)

Next == En \/ De

Spec == Init /\ [][Next]_vars

-----------------------------------------------------------------------------
(* The same runs with one key, and a ciphertext file that is tampered with *)
(* between an encryption and the next run.                                 *)

TamperKeyArgs == {<<Some(Rep(KEY_LEN, 65)), None>>}

EnT == EnWith(TamperKeyArgs)

DeT == DeWith(TamperKeyArgs)

\* Between a successful encryption and the next run, somebody flips one bit
\* of the file the encryption wrote.
Tamper ==
    /\ run.cmd = "en"
    /\ run.out.tag = "Ok"
    /\ \E i \in 1..Len(fs[CryptName(run.file)].data), b \in 0..7 :
          fs' = [fs EXCEPT ![CryptName(run.file)].data[i] = FlipBit(@, b)]
    /\ run' = [run EXCEPT !.cmd = "tamper"]

NextT == EnT \/ DeT \/ Tamper

SpecT == Init /\ [][NextT]_vars

-----------------------------------------------------------------------------
(* Properties *)

IsRun(r) == r.cmd \in {"en", "de"}

Succeeded(r) == r.out.tag = "Ok"

Dest(r) == IF r.cmd = "en" THEN CryptName(r.file) ELSE r.file

Source(r) == IF r.cmd = "en" THEN r.file ELSE CryptName(r.file)

\* C1: a successful encrypt of the file at a path, followed by a decrypt of
\* the same path with the same key, ends in a successful decrypt that leaves
\* exactly the original plaintext at the path (a decrypt the operating
\* system refuses to write for, reported as a write error, is not counted
\* against the round trip).
C1_RoundTrip ==
    [][(/\ run.cmd = "en" /\ Succeeded(run)
        /\ run'.cmd = "de" /\ run'.file = run.file /\ run'.key = run.key
        /\ run'.out # Err(FileWriteError(run'.file)))
          => /\ Succeeded(run')
             /\ fs'[run.file] = fs[run.file]]_vars

\* C2: a decrypt with a valid key of a ciphertext file shorter than the
\* nonce (0 to 11 bytes) ends by returning an error value.
C2_TruncatedFailsGracefully ==
    (/\ run.cmd = "de" /\ run.key.tag = "Ok"
     /\ fs[CryptName(run.file)].exists
     /\ Len(fs[CryptName(run.file)].data) < 12)
       => run.out.tag = "Err"

\* C3: key resolution succeeds exactly when the key material (the literal's
\* characters, or the key file's bytes) has length 32, and then the key has
\* 32 bytes (for a key file: the file's bytes as they are); for every other
\* length n it fails with KeyLenError(n, 32).
C3_KeyLengthValidation ==
    [][(/\ IsRun(run')
        /\ ParseOk(run'.raw_key, run'.key_file)
        /\ \/ run'.raw_key.some
           \/ run'.key_file.some /\ fs[run'.key_file.v].exists)
          => LET n == IF run'.raw_key.some
                      THEN Len(run'.raw_key.v)
                      ELSE Len(fs[run'.key_file.v].data)
             IN  /\ n = 32 => /\ run'.key.tag = "Ok"
                              /\ Len(run'.key.v) = 32
                              /\ ~run'.raw_key.some
                                    => run'.key.v = fs[run'.key_file.v].data
                 /\ n # 32 => run'.key = Err(KeyLenError(n, 32))]_vars

\* C3 witness: a 33-byte key file was rejected with (33, 32).
C3_Witness ==
    /\ IsRun(run)
    /\ run.key_file = Some("k33")
    /\ run.out = Err(KeyLenError(33, 32))

\* C4: a decrypt that ends with the decryption error leaves the file at the
\* input path exactly as it was: absent if it was absent, its content
\* untouched if it was present.
C4_NoPartialOutput ==
    [][(run'.cmd = "de" /\ run'.out = Err(DecryptionError))
          => fs'[run'.file] = fs[run'.file]]_vars

\* C4 witness: a decrypt ended with the decryption error while a file was
\* present at the input path.
C4_Witness ==
    /\ run.cmd = "de"
    /\ run.out = Err(DecryptionError)
    /\ fs[run.file].exists
    /\ fs[run.file].data # <<>>

\* C5: after a successful encrypt under a key, flipping any single bit of
\* the file it wrote makes the decrypt under that key end with the
\* decryption error.
C5_TamperDetected ==
    [][(/\ run.cmd = "tamper"
        /\ run'.cmd = "de" /\ run'.file = run.file /\ run'.key = run.key)
          => run'.out = Err(DecryptionError)]_vars

\* C6: a decrypt, under a valid key K2, of the file a successful encrypt
\* wrote under a different key K1 ends with the decryption error.
C6_WrongKeyRejected ==
    [][(/\ run.cmd = "en" /\ Succeeded(run)
        /\ run'.cmd = "de" /\ run'.file = run.file
        /\ run'.key.tag = "Ok" /\ run'.key # run.key)
          => run'.out = Err(DecryptionError)]_vars

\* C7: after a successful encrypt of plaintext P, the file path.crypt is the
\* nonce of the call followed by the whole cipher output for P, and nothing
\* else: len(P) + 28 bytes.
C7_OnDiskFormat ==
    (run.cmd = "en" /\ Succeeded(run))
       => LET plain == fs[run.file].data
              blob  == fs[CryptName(run.file)].data
          IN  /\ blob = run.nonce \o Seal(run.key.v, run.nonce, plain).v
              /\ Len(blob) = Len(plain) + 28

\* C8: a literal key maps character by character to one byte each, the code
\* point modulo 256, so the length checked against 32 is the number of
\* characters; a literal of single-byte characters gives the bytes of the
\* string itself.
C8_LiteralKeyMapping ==
    (IsRun(run) /\ run.raw_key.some /\ ~run.key_file.some)
       => LET lit == run.raw_key.v
          IN  /\ run.key.tag = "Ok" <=> Len(lit) = 32
              /\ run.key.tag # "Ok" => run.key = Err(KeyLenError(Len(lit), 32))
              /\ run.key.tag = "Ok"
                    => /\ Len(run.key.v) = Len(lit)
                       /\ \A i \in 1..Len(lit) : run.key.v[i] = lit[i] % 256
                       /\ (\A i \in 1..Len(lit) : Len(Utf8(lit[i])) = 1)
                             => run.key.v = RawBytes(lit)

\* C8 witness: a literal of 32 two-byte characters above 255 (64 bytes in
\* the string) was accepted as a key.
C8_Witness ==
    /\ IsRun(run)
    /\ run.raw_key = Some(Rep(32, 321))
    /\ Len(RawBytes(run.raw_key.v)) = 64
    /\ run.key = Ok(Rep(32, 65))

\* C9: a command line with both --key and --key-file, or with neither, is
\* rejected as a usage error before key resolution.
C9_ExactlyOneKeySource ==
    (IsRun(run) /\ run.raw_key.some = run.key_file.some) => run.out = Usage

EarlyError(r) ==
    /\ r.out.tag = "Err"
    /\ r.out.e.kind \in {"KeyLenError", "FileReadError", "EncryptionError",
                         "DecryptionError"}

OnlyDestination == \A f \in FileNames : fs'[f] # fs[f] => f = Dest(run')

SourceKept == fs'[Source(run')] = fs[Source(run')]

FailuresWriteNothing == EarlyError(run') => fs' = fs

\* C10 as stated: a run changes no file but its destination, never its
\* source and never its key file, and a run that ends with a key-length,
\* file-read, encryption or decryption error changes no file at all.
C10_SingleDestination ==
    [][IsRun(run')
          => /\ OnlyDestination
             /\ SourceKept
             /\ run'.key_file.some
                   => fs'[run'.key_file.v] = fs[run'.key_file.v]
             /\ FailuresWriteNothing]_vars

\* C10 amended: as C10, with the key file kept whenever it is not the file
\* the run names as its destination.
C10_SingleDestinationAmended ==
    [][IsRun(run')
          => /\ OnlyDestination
             /\ SourceKept
             /\ (run'.key_file.some /\ run'.key_file.v # Dest(run'))
                   => fs'[run'.key_file.v] = fs[run'.key_file.v]
             /\ FailuresWriteNothing]_vars

\* C10 witness: a successful encrypt with a key file wrote its destination
\* and left the source and the key file in place.
C10_Witness ==
    /\ run.cmd = "en" /\ Succeeded(run)
    /\ run.key_file = Some("k")
    /\ fs["k"] = File(Rep(32, 1))
    /\ fs["a"].exists
    /\ Len(fs["a.crypt"].data) >= 28

====
